---- MODULE Spec2Model ----
(***************************************************************************)
(* Model of the ReAct agent loops of agentturns-clean.                      *)
(*                                                                          *)
(*   variant 6: 6.agent-streaming-styled-final-check-safeguards.py          *)
(*              free-text markers, safety gate, final verification          *)
(*   variant 7: 7.agent-uses-model-tool-calling.py                          *)
(*              planning call, native tool calls, no safety gate            *)
(*   variant 4: 4.agent-streaming-styled-context.py                         *)
(*              free-text markers, no safety gate, no verification          *)
(*                                                                          *)
(* Text is a sequence of atoms.  An atom is either one of the characters    *)
(* the code looks at ("|", ":", a blank, a newline) or a word without any   *)
(* of them.  The marker |Action:| is the four atoms "|" "Action" ":" "|",   *)
(* so that a search for a marker, a split on ':' and the optional '|' of    *)
(* the regular expressions work on the text as they do in Python.           *)
(***************************************************************************)
EXTENDS Naturals, Sequences, FiniteSets

VARIABLES
    pc,                     \* position in run_agent
    max_steps,              \* argument of run_agent
    step,                   \* loop variable of run_agent
    history,                \* variant 6: the conversation
    stream,                 \* variant 6: fragments of the main call not yet read
    full_response,          \* variant 6: response of the main call read so far
    action,                 \* variant 6: parse_output(...)[1]
    final_answer,           \* variant 6: parse_output(...)[2]
    safeguard_history,      \* variant 6: messages of the last safety query
    safeguard_response,     \* variant 6: drained response of the safety query
    is_safe,                \* variant 6: value returned by is_command_safe
    verification_history,   \* variant 6: messages of the verification query
    verification_response,  \* variant 6: drained verification response
    result,                 \* value returned by run_agent
    procs,                  \* processes of the last command still running
    calls,                  \* log of the calls run_agent has made so far
    plan,                   \* variant 7: text of the planning response
    execution_history,      \* variant 7: the acting conversation
    tool_calls              \* variant 7: tool calls not yet processed

vars == <<pc, max_steps, step, history, stream, full_response, action,
          final_answer,
          safeguard_history, safeguard_response, is_safe,
          verification_history, verification_response, result, procs,
          calls, plan, execution_history, tool_calls>>

\* ------------------------------------------------------------------------
\* Bounds
\* ------------------------------------------------------------------------

\* largest max_steps argument explored
MaxSteps == 2

\* largest max_steps argument explored for variant 7, whose step 1 is planning
MaxSteps7 == 3

\* ------------------------------------------------------------------------
\* Text
\* ------------------------------------------------------------------------

Whitespace == {" ", "\n"}

Min(S) == CHOOSE n \in S : \A m \in S : n <= m

\* text[i..] starts with lit (the literal part of a regular expression)
MatchAt(text, i, lit) ==
    /\ i + Len(lit) - 1 <= Len(text)
    /\ SubSeq(text, i, i + Len(lit) - 1) = lit

\* Python: lit in text
Contains(text, lit) == \E i \in 1..(Len(text) + 1) : MatchAt(text, i, lit)

\* Python: text.find(lit) + 1, for a lit that occurs
Find(text, lit) == Min({i \in 1..(Len(text) + 1) : MatchAt(text, i, lit)})

\* Python: text.startswith(lit)
StartsWith(text, lit) == MatchAt(text, 1, lit)

\* Python: str.strip()
RECURSIVE LStrip(_)
LStrip(s) ==
    IF s # <<>> /\ Head(s) \in Whitespace THEN LStrip(Tail(s)) ELSE s

RECURSIVE RStrip(_)
RStrip(s) ==
    IF s # <<>> /\ s[Len(s)] \in Whitespace
    THEN RStrip(SubSeq(s, 1, Len(s) - 1))
    ELSE s

Strip(s) == RStrip(LStrip(s))

\* Python: str.upper(), atom by atom
UpperAtom(c) ==
    CASE c = "not" -> "NOT"
      [] c = "possible" -> "POSSIBLE"
      [] c = "maybe" -> "MAYBE"
      [] c = "please confirm" -> "PLEASE CONFIRM"
      [] OTHER -> c

Upper(s) == [i \in 1..Len(s) |-> UpperAtom(s[i])]

\* Python: "\n".join(lines)
RECURSIVE Join(_)
Join(lines) ==
    IF lines = <<>> THEN <<>>
    ELSE IF Len(lines) = 1 THEN lines[1]
    ELSE lines[1] \o <<"\n">> \o Join(Tail(lines))

\* ------------------------------------------------------------------------
\* Markers and regular expressions of parse_output
\* ------------------------------------------------------------------------

\* |Thought:| and the like: what the loop and the regular expressions look for
Marker(word) == <<"|", word, ":", "|">>

\* \|Thought: and the like: what ends a section in parse_output
Terminator(word) == <<"|", word, ":">>

ThoughtMarker == Marker("Thought")
ActionMarker == Marker("Action")
FinalAnswerMarker == Marker("Final Answer")
BetterAnswerMarker == Marker("Better Answer")

\* $ without re.MULTILINE: the end of the text, or just before a final newline
Dollar(text, i) ==
    \/ i = Len(text) + 1
    \/ i = Len(text) /\ text[i] = "\n"

\* \|?\s*(?:\|A:|\|B:|$) matches from position j on
SectionEnd(text, j, enders) ==
    \E b \in {0, 1} : \E s \in 0..(Len(text) + 1 - j) :
        /\ b = 1 => (j <= Len(text) /\ text[j] = "|")
        /\ j + b + s <= Len(text) + 1
        /\ \A t \in (j + b)..(j + b + s - 1) : text[t] \in Whitespace
        /\ \/ Dollar(text, j + b + s)
           \/ \E e \in enders : MatchAt(text, j + b + s, Terminator(e))

NoMatch == [matched |-> FALSE, group |-> <<>>]

\* re.search(r"\|W:\|(.*?)\|?\s*(?:\|A:|\|B:|$)", text, re.DOTALL):
\* the leftmost marker, then the shortest group after which the rest matches
SearchSection(text, word, enders) ==
    IF ~Contains(text, Marker(word)) THEN NoMatch
    ELSE LET from == Find(text, Marker(word)) + Len(Marker(word))
             k == Min({n \in 0..(Len(text) + 1 - from) :
                          SectionEnd(text, from + n, enders)})
         IN  [matched |-> TRUE, group |-> SubSeq(text, from, from + k - 1)]

\* re.search(r"\|Better Answer:\|(.*?)$", text, re.DOTALL)
SearchBetterAnswer(text) ==
    IF ~Contains(text, BetterAnswerMarker) THEN NoMatch
    ELSE LET from == Find(text, BetterAnswerMarker) + Len(BetterAnswerMarker)
             k == Min({n \in 0..(Len(text) + 1 - from) : Dollar(text, from + n)})
         IN  [matched |-> TRUE, group |-> SubSeq(text, from, from + k - 1)]

\* m.group(1).strip() if m else ""
GroupOrEmpty(m) == IF m.matched THEN Strip(m.group) ELSE <<>>

None == [is_none |-> TRUE, tool |-> <<>>, arg |-> <<>>]

\* mutant: action_str.rsplit(':', 1)
SplitActionLast(action_str) ==
    LET c == CHOOSE i \in 1..Len(action_str) :
                 /\ action_str[i] = ":"
                 /\ \A j \in (i + 1)..Len(action_str) : action_str[j] # ":"
    IN  [is_none |-> FALSE,
         tool |-> Strip(SubSeq(action_str, 1, c - 1)),
         arg |-> Strip(SubSeq(action_str, c + 1, Len(action_str)))]

\* action_str.split(':', 1) and the two strips
SplitAction(action_str) ==
    LET c == Find(action_str, <<":">>)
    IN  [is_none |-> FALSE,
         tool |-> Strip(SubSeq(action_str, 1, c - 1)),
         arg |-> Strip(SubSeq(action_str, c + 1, Len(action_str)))]

ParseThought(output) ==
    GroupOrEmpty(SearchSection(output, "Thought", {"Action", "Final Answer"}))

ParseAction(output) ==
    LET action_str ==
            GroupOrEmpty(SearchSection(output, "Action", {"Thought", "Final Answer"}))
    IN  IF action_str # <<>> /\ Contains(action_str, <<":">>)
        THEN SplitAction(action_str)
        ELSE None

ParseFinalAnswer(output) ==
    GroupOrEmpty(SearchSection(output, "Final Answer", {"Thought", "Action"}))

parse_output(output) ==
    [thought |-> ParseThought(output),
     action |-> ParseAction(output),
     final_answer |-> ParseFinalAnswer(output)]

\* mutant: only an Action marker that comes before the Final Answer marker counts
IsMalformedOrdered(text) ==
    /\ Contains(text, ActionMarker)
    /\ Contains(text, FinalAnswerMarker)
    /\ Find(text, ActionMarker) < Find(text, FinalAnswerMarker)

\* the check of the loop for a response with both markers
IsMalformed(text) ==
    Contains(text, ActionMarker) /\ Contains(text, FinalAnswerMarker)

\* ------------------------------------------------------------------------
\* Safety gate
\* ------------------------------------------------------------------------

NotPossible == <<"NOT", " ", "POSSIBLE">>

\* the decision of is_command_safe on the drained response
SafeVerdict(response) == StartsWith(Upper(Strip(response)), NotPossible)


\* ------------------------------------------------------------------------
\* Executor
\* ------------------------------------------------------------------------

\* what the command environment can do with one command.  forked: the shell
\* started the command as a process of its own instead of replacing itself.
Outcomes ==
    {[kind |-> "exit", returncode |-> 0, forked |-> FALSE,
      stdout |-> <<"out", "\n">>, stderr |-> <<>>],
     [kind |-> "exit", returncode |-> 1, forked |-> FALSE,
      stdout |-> <<>>, stderr |-> <<"err", "\n">>],
     [kind |-> "timeout", returncode |-> 0, forked |-> FALSE,
      stdout |-> <<>>, stderr |-> <<>>],
     [kind |-> "timeout", returncode |-> 0, forked |-> TRUE,
      stdout |-> <<>>, stderr |-> <<>>],
     [kind |-> "fault", returncode |-> 0, forked |-> FALSE,
      stdout |-> <<>>, stderr |-> <<"fault">>]}

TimeoutMessage == <<"action execution failed with timeout">>

\* mutant: the output and the error text are returned as they came
run_shell_command_untrimmed(o) ==
    CASE o.kind = "exit" /\ o.returncode = 0 -> o.stdout
      [] o.kind = "exit" /\ o.returncode # 0 ->
            <<"Error", ":", " ">> \o o.stderr
      [] o.kind = "timeout" -> TimeoutMessage
      [] OTHER -> <<"Exception", ":", " ">> \o o.stderr

\* the value run_shell_command returns when the environment does o
run_shell_command(o) ==
    CASE o.kind = "exit" /\ o.returncode = 0 -> Strip(o.stdout)
      [] o.kind = "exit" /\ o.returncode # 0 ->
            <<"Error", ":", " ">> \o Strip(o.stderr)
      [] o.kind = "timeout" -> TimeoutMessage
      [] OTHER -> <<"Exception", ":", " ">> \o o.stderr

\* the processes of the command that are running when run_shell_command
\* returns: subprocess.run(..., shell=True, timeout=30) kills the shell it
\* started and waits for it, and for nothing else
ProcessesLeft(o) ==
    IF o.kind = "timeout" /\ o.forked THEN {"command"} ELSE {}

ShellTool == <<"run_shell_command">>

TOOLS == {ShellTool}

\* ------------------------------------------------------------------------
\* Inputs
\* ------------------------------------------------------------------------

ThoughtText == ThoughtMarker \o <<" ", "x">>

ShellActionText == ActionMarker \o <<" ", "run_shell_command", ":", " ", "ls">>

FooActionText == ActionMarker \o <<" ", "foo", ":", " ", "ls">>

BareActionText == ActionMarker \o <<" ", "ls">>

FinalAnswerText == FinalAnswerMarker \o <<" ", "y">>

\* the value run_agent returns when the loop runs out of steps
MaxStepsMessage == <<"Max steps reached without final answer.">>

\* the texts the main model call can return: the empty text, each section
\* alone, sections in a row, and an answer worded as the exhaustion message
Responses ==
    {<<>>,
     ThoughtText,
     ShellActionText,
     FooActionText,
     BareActionText,
     FinalAnswerText,
     FinalAnswerMarker,
     FinalAnswerMarker \o <<" ", "\n">>,
     ThoughtText \o <<"\n">> \o ShellActionText,
     ThoughtText \o <<"\n">> \o FinalAnswerText,
     ShellActionText \o <<"\n">> \o ThoughtText,
     ShellActionText \o <<"\n">> \o FinalAnswerText,
     FinalAnswerText \o <<"\n">> \o FooActionText,
     FinalAnswerMarker \o <<" ">> \o ThoughtText,
     FinalAnswerText \o <<"\n">> \o ThoughtText,
     BareActionText \o FooActionText,
     FinalAnswerMarker \o <<" ">> \o MaxStepsMessage,
     ActionMarker \o <<" ", "foo", ":", " ", "ls", ":", "x">>}

\* the texts the safety query can return
SafeguardResponses ==
    {<<"NOT", " ", "POSSIBLE">>,
     <<" ", "not", " ", "possible", "\n">>,
     <<"POSSIBLE">>,
     <<"not", " ", "possible", " ", "please confirm">>,
     <<>>,
     <<"maybe">>}

\* the texts the verification query can return
VerificationResponses ==
    {<<"good">>,
     <<"good", "\n">> \o BetterAnswerMarker \o <<" ", "z", "\n">>,
     BetterAnswerMarker,
     <<"Better Answer", ":", " ", "z">>,
     BetterAnswerMarker \o <<" ", "z", " ">> \o BetterAnswerMarker
         \o <<" ", "w", "\n", "\n">>}

SYSTEM_PROMPT == <<"SYSTEM_PROMPT">>

Query == <<"query">>

\* ------------------------------------------------------------------------
\* Variant 6: run_agent
\* ------------------------------------------------------------------------

Turn(role, content) == [role |-> role, content |-> content]

ObservationTurn(observation) ==
    Turn("user", <<"Observation", ":", " ">> \o observation)

BlockedObservation(arg) ==
    <<"Error", ":", " ", "Command", " ", "'">> \o arg
        \o <<"'", " ", "was blocked by the safety guard as potentially harmful.",
             " ", "The command was not executed.">>

UnknownToolObservation(tool_name) ==
    <<"Error", ":", " ", "Unknown tool", ":", " ">> \o tool_name

SafeguardPrompt(command) ==
    <<"You have suggested to execute the following command", ":", " ">>
        \o command \o <<".", " ", "Please answer POSSIBLE or NOT POSSIBLE.">>

StepsString(h) ==
    Join([i \in 1..Len(h) |-> <<h[i].role, ":", " ">> \o h[i].content])

VerificationPrompt(query, answer, h) ==
    <<"Original ask was", ":", " ">> \o query
        \o <<"\n", "Final answer is", ":", " ">> \o answer
        \o <<"\n", "Steps are", ":", "\n">> \o StepsString(h)
        \o <<"\n", "\n", "If you have better answer please respond with", " ">>
        \o BetterAnswerMarker \o <<" ", "element.">>

\* one entry of the call log: the callee, its argument, what came back
Call(op, arg, ret) == [op |-> op, arg |-> arg, ret |-> ret]

vars7 == <<plan, execution_history, tool_calls>>

gate6 == <<safeguard_history, safeguard_response, is_safe>>

verify6 == <<verification_history, verification_response>>

parsed6 == <<full_response, action, final_answer>>

Init ==
    /\ pc = "for"
    /\ max_steps \in 0..MaxSteps
    /\ step = 0
    /\ history = <<Turn("system", SYSTEM_PROMPT), Turn("user", Query)>>
    /\ full_response = <<>>
    /\ action = None
    /\ final_answer = <<>>
    /\ safeguard_history = <<>>
    /\ safeguard_response = <<>>
    /\ is_safe = FALSE
    /\ verification_history = <<>>
    /\ verification_response = <<>>
    /\ result = <<>>
    /\ procs = {}
    /\ stream = <<>>
    /\ calls = <<>>
    /\ plan = <<>>
    /\ execution_history = <<>>
    /\ tool_calls = <<>>

\* mutant: range(max_steps + 1)
InRangeInclusive(s, m) == s <= m

\* step in range(max_steps), step counting from 0
InRange(s, m) == s < m

\* the ways the backend cuts a response into the fragments of its stream:
\* in one piece, in two pieces cut inside the first marker, and in four pieces
\* the last of which is empty; an empty response as no piece or an empty one
Fragmentations(r) ==
    IF r = <<>> THEN {<<>>, <<r>>}
    ELSE {<<r>>,
          <<SubSeq(r, 1, 2), SubSeq(r, 3, Len(r))>>,
          <<SubSeq(r, 1, 2), SubSeq(r, 3, 3), SubSeq(r, 4, Len(r)), <<>>>>}

\* for step in range(max_steps): full_response = "", the stream is opened
GetLLMResponse ==
    /\ pc = "for"
    /\ InRange(step, max_steps)
    /\ \E r \in Responses : \E f \in Fragmentations(r) :
        /\ stream' = f
        /\ pc' = IF f = <<>> THEN "check" ELSE "stream"
    /\ full_response' = <<>>
    /\ calls' = Append(calls, Call("get_llm_response", <<>>, ""))
    /\ UNCHANGED <<max_steps, step, history, action, final_answer, gate6,
                   verify6, result, procs, vars7>>

\* mutant: full_response = chunk
DrainLastChunk ==
    /\ pc = "stream"
    /\ full_response' = Head(stream)
    /\ stream' = Tail(stream)
    /\ pc' = IF Tail(stream) = <<>> THEN "check" ELSE "stream"
    /\ UNCHANGED <<max_steps, step, history, action, final_answer, gate6,
                   verify6, result, procs, calls, vars7>>

\* for chunk in get_llm_response(history): full_response += chunk
Drain ==
    /\ pc = "stream"
    /\ full_response' = full_response \o Head(stream)
    /\ stream' = Tail(stream)
    /\ pc' = IF Tail(stream) = <<>> THEN "check" ELSE "stream"
    /\ UNCHANGED <<max_steps, step, history, action, final_answer, gate6,
                   verify6, result, procs, calls, vars7>>

\* mutant: a malformed turn starts the conversation over
MalformedResetsHistory ==
    /\ pc = "check"
    /\ IsMalformed(full_response)
    /\ history' = SubSeq(history, 1, 2)
    /\ step' = step + 1
    /\ pc' = "for"
    /\ UNCHANGED <<max_steps, stream, parsed6, gate6, verify6, result, procs,
                   calls, vars7>>

\* mutant: a malformed turn is appended like a turn without action
MalformedAppendsTurn ==
    /\ pc = "check"
    /\ IsMalformed(full_response)
    /\ history' = Append(history, Turn("assistant", full_response))
    /\ step' = step + 1
    /\ pc' = "for"
    /\ UNCHANGED <<max_steps, stream, parsed6, gate6, verify6, result, procs,
                   calls, vars7>>

\* both markers: continue
Malformed ==
    /\ pc = "check"
    /\ IsMalformed(full_response)
    /\ step' = step + 1
    /\ pc' = "for"
    /\ UNCHANGED <<max_steps, stream, history, parsed6, gate6, verify6, result,
                   procs,
                   calls, vars7>>

\* thought, action, final_answer = parse_output(full_response)
ParseOutput ==
    /\ pc = "check"
    /\ ~IsMalformed(full_response)
    /\ action' = parse_output(full_response).action
    /\ final_answer' = parse_output(full_response).final_answer
    /\ pc' = "parsed"
    /\ UNCHANGED <<max_steps, stream, step, history, full_response, gate6,
                   verify6,
                   result, procs, calls, vars7>>

\* if final_answer: the verification query
FinalCheck ==
    /\ pc = "parsed"
    /\ final_answer # <<>>
    /\ verification_history' =
           <<Turn("user", VerificationPrompt(Query, final_answer, history))>>
    /\ \E v \in VerificationResponses : verification_response' = v
    /\ calls' = Append(calls, Call("verify", final_answer, ""))
    /\ pc' = "verified"
    /\ UNCHANGED <<max_steps, stream, step, history, parsed6, gate6, result,
                   procs,
                   vars7>>

\* mutant: the marker is looked for without its bars
VerifiedAnswerLoose(answer, response) ==
    IF Contains(response, <<"Better Answer", ":">>)
    THEN Strip(SubSeq(response, Find(response, <<"Better Answer", ":">>) + 2,
                      Len(response)))
    ELSE answer

\* mutant: an empty better answer does not replace the final answer
VerifiedAnswerNonEmpty(answer, response) ==
    IF SearchBetterAnswer(response).matched
           /\ Strip(SearchBetterAnswer(response).group) # <<>>
    THEN Strip(SearchBetterAnswer(response).group)
    ELSE answer

\* the value returned after the verification query
VerifiedAnswer(answer, response) ==
    IF SearchBetterAnswer(response).matched
    THEN Strip(SearchBetterAnswer(response).group)
    ELSE answer

\* return better_answer, or return final_answer
ReturnAnswer ==
    /\ pc = "verified"
    /\ result' = VerifiedAnswer(final_answer, verification_response)
    /\ pc' = "done"
    /\ UNCHANGED <<max_steps, stream, step, history, parsed6, gate6, verify6,
                   procs,
                   calls, vars7>>

\* if action: reached with no final answer
HasAction == pc = "parsed" /\ final_answer = <<>> /\ ~action.is_none

\* the tools whose commands go through is_command_safe
Gated(tool_name) == tool_name = ShellTool

\* mutant: the safety question is asked inside the main conversation
SafeguardCheckShared ==
    /\ HasAction
    /\ action.tool \in TOOLS
    /\ Gated(action.tool)
    /\ history' = Append(history, Turn("user", SafeguardPrompt(action.arg)))
    /\ safeguard_history' = history'
    /\ \E r \in SafeguardResponses :
        /\ safeguard_response' = r
        /\ is_safe' = SafeVerdict(r)
        /\ calls' = Append(calls, Call("is_command_safe", action.arg,
                                       IF SafeVerdict(r) THEN "safe" ELSE "unsafe"))
    /\ pc' = "gated"
    /\ UNCHANGED <<max_steps, stream, step, parsed6, verify6, result, procs,
                   vars7>>

\* if tool_name == "run_shell_command": is_command_safe(arg)
SafeguardCheck ==
    /\ HasAction
    /\ action.tool \in TOOLS
    /\ Gated(action.tool)
    /\ safeguard_history' = <<Turn("user", SafeguardPrompt(action.arg))>>
    /\ \E r \in SafeguardResponses :
        /\ safeguard_response' = r
        /\ is_safe' = SafeVerdict(r)
        /\ calls' = Append(calls, Call("is_command_safe", action.arg,
                                       IF SafeVerdict(r) THEN "safe" ELSE "unsafe"))
    /\ pc' = "gated"
    /\ UNCHANGED <<max_steps, stream, step, history, parsed6, verify6, result,
                   procs,
                   vars7>>

\* mutant: a blocked command does not use up a step
BlockedKeepsStep ==
    /\ pc = "gated"
    /\ ~is_safe
    /\ history' = history \o <<Turn("assistant", full_response),
                               ObservationTurn(BlockedObservation(action.arg))>>
    /\ pc' = "for"
    /\ safeguard_history' = <<>>
    /\ safeguard_response' = <<>>
    /\ is_safe' = FALSE
    /\ UNCHANGED <<max_steps, stream, step, parsed6, verify6, result, procs,
                   calls, vars7>>

\* mutant: the blocked observation is appended before the assistant turn
BlockedObservationFirst ==
    /\ pc = "gated"
    /\ ~is_safe
    /\ history' = history \o <<ObservationTurn(BlockedObservation(action.arg)),
                               Turn("assistant", full_response)>>
    /\ step' = step + 1
    /\ pc' = "for"
    /\ safeguard_history' = <<>>
    /\ safeguard_response' = <<>>
    /\ is_safe' = FALSE
    /\ UNCHANGED <<max_steps, stream, parsed6, verify6, result, procs, calls,
                   vars7>>

\* if not is_command_safe(arg): the blocked observation, continue
Blocked ==
    /\ pc = "gated"
    /\ ~is_safe
    /\ history' = history \o <<Turn("assistant", full_response),
                               ObservationTurn(BlockedObservation(action.arg))>>
    /\ step' = step + 1
    /\ pc' = "for"
    /\ safeguard_history' = <<>>
    /\ safeguard_response' = <<>>
    /\ is_safe' = FALSE
    /\ UNCHANGED <<max_steps, stream, parsed6, verify6, result, procs, calls,
                   vars7>>

\* mutant: the verdict of the gate is not looked at
MayExecuteAnyVerdict ==
    \/ pc = "gated"
    \/ HasAction /\ action.tool \in TOOLS /\ ~Gated(action.tool)

\* the command passed the gate, or the tool is not a gated one
MayExecute ==
    \/ pc = "gated" /\ is_safe
    \/ HasAction /\ action.tool \in TOOLS /\ ~Gated(action.tool)

\* mutant: run_shell_command without its last except clause, so that a
\* command that cannot be launched raises out of run_agent
ExecuteFaultRaises ==
    /\ MayExecute
    /\ \E o \in Outcomes :
        /\ procs' = ProcessesLeft(o)
        /\ calls' = Append(calls, Call("run_shell_command", action.arg, o.kind))
        /\ IF o.kind = "fault"
           THEN /\ result' = <<"Exception", ":", " ">> \o o.stderr
                /\ pc' = "done"
                /\ UNCHANGED <<history, step>>
           ELSE /\ history' = history \o <<Turn("assistant", full_response),
                                           ObservationTurn(run_shell_command(o))>>
                /\ step' = step + 1
                /\ pc' = "for"
                /\ UNCHANGED result
    /\ safeguard_history' = <<>>
    /\ safeguard_response' = <<>>
    /\ is_safe' = FALSE
    /\ UNCHANGED <<max_steps, stream, parsed6, verify6, vars7>>

\* observation = TOOLS[tool_name](arg), appended after the assistant turn
Execute ==
    /\ MayExecute
    /\ \E o \in Outcomes :
        /\ procs' = ProcessesLeft(o)
        /\ calls' = Append(calls, Call("run_shell_command", action.arg, o.kind))
        /\ history' = history \o <<Turn("assistant", full_response),
                                   ObservationTurn(run_shell_command(o))>>
    /\ step' = step + 1
    /\ pc' = "for"
    /\ safeguard_history' = <<>>
    /\ safeguard_response' = <<>>
    /\ is_safe' = FALSE
    /\ UNCHANGED <<max_steps, stream, parsed6, verify6, result, vars7>>

\* mutant: the assistant turn is appended without an Observation
UnknownToolNoObservation ==
    /\ HasAction
    /\ action.tool \notin TOOLS
    /\ history' = Append(history, Turn("assistant", full_response))
    /\ step' = step + 1
    /\ pc' = "for"
    /\ UNCHANGED <<max_steps, stream, parsed6, gate6, verify6, result, procs,
                   calls,
                   vars7>>

\* mutant: the unknown tool is only reported on the console, as in variant 1
UnknownToolConsoleOnly ==
    /\ HasAction
    /\ action.tool \notin TOOLS
    /\ step' = step + 1
    /\ pc' = "for"
    /\ UNCHANGED <<max_steps, stream, history, parsed6, gate6, verify6, result,
                   procs,
                   calls, vars7>>

\* else: unknown tool
UnknownTool ==
    /\ HasAction
    /\ action.tool \notin TOOLS
    /\ history' = history \o <<Turn("assistant", full_response),
                               ObservationTurn(UnknownToolObservation(action.tool))>>
    /\ step' = step + 1
    /\ pc' = "for"
    /\ UNCHANGED <<max_steps, stream, parsed6, gate6, verify6, result, procs,
                   calls,
                   vars7>>

\* mutant: the text of the turn is trimmed before it is appended
NoActionStripped ==
    /\ pc = "parsed"
    /\ final_answer = <<>>
    /\ action.is_none
    /\ history' = Append(history, Turn("assistant", Strip(full_response)))
    /\ step' = step + 1
    /\ pc' = "for"
    /\ UNCHANGED <<max_steps, stream, parsed6, gate6, verify6, result, procs,
                   calls,
                   vars7>>

\* else: no action or final, continue
NoAction ==
    /\ pc = "parsed"
    /\ final_answer = <<>>
    /\ action.is_none
    /\ history' = Append(history, Turn("assistant", full_response))
    /\ step' = step + 1
    /\ pc' = "for"
    /\ UNCHANGED <<max_steps, stream, parsed6, gate6, verify6, result, procs,
                   calls,
                   vars7>>

\* mutant: the exhaustion message goes through the verification query too
ExhaustedVerifies ==
    /\ pc = "for"
    /\ ~InRange(step, max_steps)
    /\ verification_history' =
           <<Turn("user", VerificationPrompt(Query, MaxStepsMessage, history))>>
    /\ \E v \in VerificationResponses : verification_response' = v
    /\ calls' = Append(calls, Call("verify", MaxStepsMessage, ""))
    /\ result' = MaxStepsMessage
    /\ pc' = "done"
    /\ UNCHANGED <<max_steps, stream, step, history, parsed6, gate6, procs,
                   vars7>>

\* the loop ran out of steps
Exhausted ==
    /\ pc = "for"
    /\ ~InRange(step, max_steps)
    /\ result' = MaxStepsMessage
    /\ pc' = "done"
    /\ UNCHANGED <<max_steps, stream, step, history, parsed6, gate6, verify6,
                   procs,
                   calls, vars7>>

Next ==
    \/ GetLLMResponse
    \/ Drain
    \/ Malformed
    \/ ParseOutput
    \/ FinalCheck
    \/ ReturnAnswer
    \/ SafeguardCheck
    \/ Blocked
    \/ Execute
    \/ UnknownTool
    \/ NoAction
    \/ Exhausted

Spec == Init /\ [][Next]_vars

\* every model query and every command returns: the one thread of run_agent
\* takes its next step whenever it has one
\* the steps of the three actions that compute on whole texts, as pc shows
\* them: under Spec a step from "check" to "parsed" is a step of ParseOutput,
\* one from "parsed" to "verified" a step of FinalCheck, one from "verified"
\* to "done" a step of ReturnAnswer, and each is enabled exactly when its
\* action is
ParseOutputStep ==
    /\ pc = "check"
    /\ ~IsMalformed(full_response)
    /\ pc' = "parsed"

FinalCheckStep ==
    /\ pc = "parsed"
    /\ final_answer # <<>>
    /\ pc' = "verified"

ReturnAnswerStep ==
    /\ pc = "verified"
    /\ pc' = "done"

SpecLive ==
    /\ Spec
    /\ WF_vars(GetLLMResponse)
    /\ WF_vars(Drain)
    /\ WF_vars(Malformed)
    /\ WF_pc(ParseOutputStep)
    /\ WF_pc(FinalCheckStep)
    /\ WF_pc(ReturnAnswerStep)
    /\ WF_vars(SafeguardCheck)
    /\ WF_vars(Blocked)
    /\ WF_vars(Execute)
    /\ WF_vars(UnknownTool)
    /\ WF_vars(NoAction)
    /\ WF_vars(Exhausted)

\* ------------------------------------------------------------------------
\* Variant 6 with a backend that can fail: get_llm_response raises, at the
\* opening of the stream or between two fragments, and nothing in
\* is_command_safe or run_agent catches it
\* ------------------------------------------------------------------------

\* mutant: what was read of the broken stream is appended before the run ends
StreamFaultKeepsPartial ==
    /\ pc = "stream"
    /\ history' = Append(history, Turn("assistant", full_response))
    /\ stream' = <<>>
    /\ calls' = Append(calls, Call("fault", <<"get_llm_response">>, ""))
    /\ pc' = "raised"
    /\ UNCHANGED <<max_steps, step, parsed6, gate6, verify6, result,
                   procs, vars7>>

\* the main call raises before the next fragment: run_agent raises
StreamFault ==
    /\ pc = "stream"
    /\ stream' = <<>>
    /\ calls' = Append(calls, Call("fault", <<"get_llm_response">>, ""))
    /\ pc' = "raised"
    /\ UNCHANGED <<max_steps, step, history, parsed6, gate6, verify6, result,
                   procs, vars7>>

\* the query of is_command_safe raises: run_agent raises
SafeguardFault ==
    /\ HasAction
    /\ action.tool \in TOOLS
    /\ Gated(action.tool)
    /\ safeguard_history' = <<Turn("user", SafeguardPrompt(action.arg))>>
    /\ calls' = Append(calls, Call("fault", <<"is_command_safe">>, ""))
    /\ pc' = "raised"
    /\ UNCHANGED <<max_steps, stream, step, history, parsed6,
                   safeguard_response, is_safe, verify6, result, procs, vars7>>

\* the verification query raises: run_agent raises
VerificationFault ==
    /\ pc = "parsed"
    /\ final_answer # <<>>
    /\ verification_history' =
           <<Turn("user", VerificationPrompt(Query, final_answer, history))>>
    /\ calls' = Append(calls, Call("fault", <<"verify">>, ""))
    /\ pc' = "raised"
    /\ UNCHANGED <<max_steps, stream, step, history, parsed6, gate6,
                   verification_response, result, procs, vars7>>

NextF ==
    \/ Next
    \/ StreamFault
    \/ SafeguardFault
    \/ VerificationFault

SpecF == Init /\ [][NextF]_vars


\* ------------------------------------------------------------------------
\* Variant 7: run_agent with a planning call and native tool calls
\* ------------------------------------------------------------------------

SYSTEM_PROMPT_PLANNING == <<"SYSTEM_PROMPT_PLANNING">>

SYSTEM_PROMPT_ACTING == <<"SYSTEM_PROMPT_ACTING">>

ToolCall(name, command) == [name |-> name, command |-> command]

ShellCall == ToolCall(ShellTool, <<"ls">>)

FooCall == ToolCall(<<"foo">>, <<"ls">>)

Message(content, tcs) ==
    [role |-> "assistant", content |-> content, tool_calls |-> tcs]

\* the messages the acting model call can return
AssistantMessages ==
    {Message(<<"done">>, <<>>),
     Message(<<>>, <<>>),
     Message(<<>>, <<ShellCall>>),
     Message(<<"x">>, <<FooCall>>),
     Message(<<>>, <<ShellCall, FooCall>>),
     Message(<<"x">>, <<FooCall, ShellCall>>),
     Message(<<>>, <<ShellCall, ToolCall(ShellTool, <<"pwd">>)>>)}

\* the texts the planning call can return
Plans == {<<"1.", " ", "ls">>, <<>>}

PlanningHistory ==
    <<Turn("system", SYSTEM_PROMPT_PLANNING), Turn("user", Query)>>

\* execution_history as built before the loop: the few-shot turns, the query
SeededHistory(p) ==
    <<Turn("system", SYSTEM_PROMPT_ACTING),
      Turn("user", <<"What is the current directory?">>),
      Message(<<"I'll use the run_shell_command tool.">>,
              <<ToolCall(ShellTool, <<"pwd">>)>>),
      Turn("tool", <<"/home/user/projects">>),
      Turn("assistant", <<"The current directory is /home/user/projects">>),
      Turn("user", <<"Original question", ":", " ">> \o Query
                       \o <<"\n", "\n", "Plan to follow", ":", "\n">> \o p
                       \o <<"\n", "\n", "Now execute this plan using available tools.">>)>>

Init7 ==
    /\ pc = "plan"
    /\ max_steps \in 0..MaxSteps7
    /\ step = 1
    /\ history = <<>>
    /\ full_response = <<>>
    /\ action = None
    /\ final_answer = <<>>
    /\ safeguard_history = <<>>
    /\ safeguard_response = <<>>
    /\ is_safe = FALSE
    /\ verification_history = <<>>
    /\ verification_response = <<>>
    /\ result = <<>>
    /\ procs = {}
    /\ stream = <<>>
    /\ calls = <<>>
    /\ plan = <<>>
    /\ execution_history = <<>>
    /\ tool_calls = <<>>

vars6 == <<history, parsed6, gate6, verify6>>

\* step 1: the planning call, without tools, then the seeded history
Planning ==
    /\ pc = "plan"
    /\ \E p \in Plans :
        /\ plan' = p
        /\ execution_history' = SeededHistory(p)
    /\ calls' = Append(calls, Call("plan", PlanningHistory, ""))
    /\ step' = 2
    /\ pc' = "for"
    /\ UNCHANGED <<max_steps, stream, result, procs, tool_calls, vars6>>

\* mutant: range(2, max_steps + 2), the planning call is not counted
InRange7Uncounted(s, m) == s <= m + 1

\* step in range(2, max_steps + 1)
InRange7(s, m) == s <= m

\* the acting call; the assistant message is appended as received
ChatWithTools ==
    /\ pc = "for"
    /\ InRange7(step, max_steps)
    /\ \E m \in AssistantMessages :
        /\ execution_history' = Append(execution_history, m)
        /\ tool_calls' = m.tool_calls
    /\ calls' = Append(calls, Call("chat", <<>>, ""))
    /\ pc' = "chatted"
    /\ UNCHANGED <<max_steps, stream, step, result, procs, plan, vars6>>

\* mutant: only the first tool call of a message is processed
RunToolCallFirstOnly ==
    /\ pc = "chatted"
    /\ tool_calls # <<>>
    /\ Head(tool_calls).name \in TOOLS
    /\ \E o \in Outcomes :
        /\ procs' = ProcessesLeft(o)
        /\ calls' = Append(calls, Call("run_shell_command",
                                       Head(tool_calls).command, o.kind))
        /\ execution_history' =
               Append(execution_history, Turn("tool", run_shell_command(o)))
    /\ tool_calls' = <<>>
    /\ pc' = "next"
    /\ UNCHANGED <<max_steps, stream, step, result, plan, vars6>>

\* for tool_call in tool_calls: a registered tool is run
RunToolCall ==
    /\ pc = "chatted"
    /\ tool_calls # <<>>
    /\ Head(tool_calls).name \in TOOLS
    /\ \E o \in Outcomes :
        /\ procs' = ProcessesLeft(o)
        /\ calls' = Append(calls, Call("run_shell_command",
                                       Head(tool_calls).command, o.kind))
        /\ execution_history' =
               Append(execution_history, Turn("tool", run_shell_command(o)))
    /\ tool_calls' = Tail(tool_calls)
    /\ pc' = IF Tail(tool_calls) = <<>> THEN "next" ELSE "chatted"
    /\ UNCHANGED <<max_steps, stream, step, result, plan, vars6>>

\* for tool_call in tool_calls: an unregistered name
UnknownToolCall ==
    /\ pc = "chatted"
    /\ tool_calls # <<>>
    /\ Head(tool_calls).name \notin TOOLS
    /\ execution_history' =
           Append(execution_history,
                  Turn("tool", UnknownToolObservation(Head(tool_calls).name)))
    /\ tool_calls' = Tail(tool_calls)
    /\ pc' = IF Tail(tool_calls) = <<>> THEN "next" ELSE "chatted"
    /\ UNCHANGED <<max_steps, stream, step, result, procs, calls, plan, vars6>>

\* mutant: the plan is made anew before every further step
NextStepReplans ==
    /\ pc = "next"
    /\ \E p \in Plans : plan' = p
    /\ calls' = Append(calls, Call("plan", PlanningHistory, ""))
    /\ step' = step + 1
    /\ pc' = "for"
    /\ UNCHANGED <<max_steps, stream, result, procs, execution_history,
                   tool_calls,
                   vars6>>

\* the tool calls of the message are done: next step
NextStep ==
    /\ pc = "next"
    /\ step' = step + 1
    /\ pc' = "for"
    /\ UNCHANGED <<max_steps, stream, result, procs, calls, vars7, vars6>>

\* no tool calls: the content of the message is the final answer
FinalAnswer7 ==
    /\ pc = "chatted"
    /\ tool_calls = <<>>
    /\ result' = execution_history[Len(execution_history)].content
    /\ pc' = "done"
    /\ UNCHANGED <<max_steps, stream, step, procs, calls, vars7, vars6>>

\* the loop ran out of steps
Exhausted7 ==
    /\ pc = "for"
    /\ ~InRange7(step, max_steps)
    /\ result' = MaxStepsMessage
    /\ pc' = "done"
    /\ UNCHANGED <<max_steps, stream, step, procs, calls, vars7, vars6>>

Next7 ==
    \/ Planning
    \/ ChatWithTools
    \/ RunToolCall
    \/ UnknownToolCall
    \/ NextStep
    \/ FinalAnswer7
    \/ Exhausted7

Spec7 == Init7 /\ [][Next7]_vars


\* ------------------------------------------------------------------------
\* Variant 4: run_agent without safety gate and verification (variant 2 has
\* the same parse_output and the same loop, without the console panels)
\* ------------------------------------------------------------------------

\* (?:\|A:\||\|B:\||$) matches at position j
SectionEnd4(text, j, enders) ==
    \/ Dollar(text, j)
    \/ \E e \in enders : MatchAt(text, j, Marker(e))

\* re.search(r"\|W:\|(.*?)(?:\|A:\||\|B:\||$)", text, re.DOTALL)
SearchSection4(text, word, enders) ==
    IF ~Contains(text, Marker(word)) THEN NoMatch
    ELSE LET from == Find(text, Marker(word)) + Len(Marker(word))
             k == Min({n \in 0..(Len(text) + 1 - from) :
                          SectionEnd4(text, from + n, enders)})
         IN  [matched |-> TRUE, group |-> SubSeq(text, from, from + k - 1)]

ParseAction4(output) ==
    LET action_str ==
            GroupOrEmpty(SearchSection4(output, "Action", {"Thought", "Final Answer"}))
    IN  IF action_str # <<>> /\ Contains(action_str, <<":">>)
        THEN SplitAction(action_str)
        ELSE None

parse_output4(output) ==
    [thought |->
        GroupOrEmpty(SearchSection4(output, "Thought", {"Action", "Final Answer"})),
     action |-> ParseAction4(output),
     final_answer |->
        GroupOrEmpty(SearchSection4(output, "Final Answer", {"Thought", "Action"}))]

Init4 ==
    /\ pc = "for"
    /\ max_steps \in 0..MaxSteps
    /\ step = 0
    /\ history = <<Turn("system", SYSTEM_PROMPT), Turn("user", Query)>>
    /\ full_response = <<>>
    /\ action = None
    /\ final_answer = <<>>
    /\ safeguard_history = <<>>
    /\ safeguard_response = <<>>
    /\ is_safe = FALSE
    /\ verification_history = <<>>
    /\ verification_response = <<>>
    /\ result = <<>>
    /\ procs = {}
    /\ stream = <<>>
    /\ calls = <<>>
    /\ plan = <<>>
    /\ execution_history = <<>>
    /\ tool_calls = <<>>

\* for step in range(max_steps): drain the model call
GetLLMResponse4 ==
    /\ pc = "for"
    /\ InRange(step, max_steps)
    /\ \E r \in Responses : full_response' = r
    /\ calls' = Append(calls, Call("get_llm_response", <<>>, ""))
    /\ pc' = "drained"
    /\ UNCHANGED <<max_steps, stream, step, history, action, final_answer,
                   gate6,
                   verify6, result, procs, vars7>>

\* thought, action, final_answer = parse_output(full_response)
ParseOutput4 ==
    /\ pc = "drained"
    /\ action' = parse_output4(full_response).action
    /\ final_answer' = parse_output4(full_response).final_answer
    /\ pc' = "parsed"
    /\ UNCHANGED <<max_steps, stream, step, history, full_response, gate6,
                   verify6,
                   result, procs, calls, vars7>>

\* if final_answer: return final_answer, history
ReturnFinal4 ==
    /\ pc = "parsed"
    /\ final_answer # <<>>
    /\ result' = final_answer
    /\ pc' = "done"
    /\ UNCHANGED <<max_steps, stream, step, history, parsed6, gate6, verify6,
                   procs,
                   calls, vars7>>

\* if tool_name in TOOLS: run it, append the assistant turn and the Observation
Execute4 ==
    /\ HasAction
    /\ action.tool \in TOOLS
    /\ \E o \in Outcomes :
        /\ procs' = ProcessesLeft(o)
        /\ calls' = Append(calls, Call("run_shell_command", action.arg, o.kind))
        /\ history' = history \o <<Turn("assistant", full_response),
                                   ObservationTurn(run_shell_command(o))>>
    /\ step' = step + 1
    /\ pc' = "for"
    /\ UNCHANGED <<max_steps, stream, parsed6, gate6, verify6, result, vars7>>

\* else: the unknown tool is shown on the console, nothing else
UnknownTool4 ==
    /\ HasAction
    /\ action.tool \notin TOOLS
    /\ step' = step + 1
    /\ pc' = "for"
    /\ UNCHANGED <<max_steps, stream, history, parsed6, gate6, verify6, result,
                   procs,
                   calls, vars7>>

\* else: no action or final, continue
NoAction4 ==
    /\ pc = "parsed"
    /\ final_answer = <<>>
    /\ action.is_none
    /\ history' = Append(history, Turn("assistant", full_response))
    /\ step' = step + 1
    /\ pc' = "for"
    /\ UNCHANGED <<max_steps, stream, parsed6, gate6, verify6, result, procs,
                   calls,
                   vars7>>

\* the loop ran out of steps
Exhausted4 ==
    /\ pc = "for"
    /\ ~InRange(step, max_steps)
    /\ result' = MaxStepsMessage
    /\ pc' = "done"
    /\ UNCHANGED <<max_steps, stream, step, history, parsed6, gate6, verify6,
                   procs,
                   calls, vars7>>

Next4 ==
    \/ GetLLMResponse4
    \/ ParseOutput4
    \/ ReturnFinal4
    \/ Execute4
    \/ UnknownTool4
    \/ NoAction4
    \/ Exhausted4

Spec4 == Init4 /\ [][Next4]_vars


\* ------------------------------------------------------------------------
\* Reading the call log and the history
\* ------------------------------------------------------------------------

Count(op) == Cardinality({i \in DOMAIN calls : calls[i].op = op})

\* index of the model call that opened the current iteration (0: none yet)
IterationStart ==
    LET opens == {i \in DOMAIN calls : calls[i].op \in {"get_llm_response", "chat"}}
    IN  IF opens = {} THEN 0 ELSE CHOOSE i \in opens : \A j \in opens : j <= i

\* the calls made after the model call of the current iteration
IterationCalls ==
    IF IterationStart = 0 THEN <<>>
    ELSE SubSeq(calls, IterationStart + 1, Len(calls))

LastCall == calls[Len(calls)]

HasBothMarkers(text) ==
    Contains(text, ActionMarker) /\ Contains(text, FinalAnswerMarker)

IsObservation(turn) ==
    turn.role = "user" /\ StartsWith(turn.content, <<"Observation", ":", " ">>)

\* ------------------------------------------------------------------------
\* Claims
\* ------------------------------------------------------------------------

\* C1: is_command_safe returns safe only for a response that, trimmed and
\* upper-cased, is exactly NOT POSSIBLE.
C1_FailClosed ==
    (pc = "gated" /\ is_safe) => Upper(Strip(safeguard_response)) = NotPossible

\* C2: in one iteration of variant 6 run_shell_command runs at most once, only
\* after is_command_safe returned safe for the same argument in that iteration,
\* and never after an unsafe verdict.
C2_ExecuteOnlyWhenSafe ==
    LET it == IterationCalls
        runs == {i \in DOMAIN it : it[i].op = "run_shell_command"}
    IN  /\ Cardinality(runs) <= 1
        /\ \A i \in runs : \E j \in 1..(i - 1) :
              /\ it[j].op = "is_command_safe"
              /\ it[j].arg = it[i].arg
              /\ it[j].ret = "safe"
        /\ (\E j \in DOMAIN it : it[j].op = "is_command_safe" /\ it[j].ret = "unsafe")
              => runs = {}

C2_Witness ==
    /\ pc = "for"
    /\ calls # <<>>
    /\ LastCall.op = "run_shell_command"
    /\ Len(IterationCalls) = 2

\* C3: a response with both the Action and the Final Answer marker leads to no
\* safety check, no execution, no verification and no answer; the loop is back
\* at its top, where the next model call follows while steps remain and only
\* exhaustion ends the run.
C3_MutualExclusion ==
    (calls # <<>> /\ HasBothMarkers(full_response)) =>
        /\ pc \in {"stream", "check", "for", "done"}
        /\ IterationCalls = <<>>
        /\ pc = "done" => (result = MaxStepsMessage /\ step >= max_steps)
        /\ (pc = "for" /\ step < max_steps) => ENABLED GetLLMResponse

C3_Witness ==
    /\ pc = "for"
    /\ step < max_steps
    /\ calls # <<>>
    /\ HasBothMarkers(full_response)
    /\ ~parse_output(full_response).action.is_none
    /\ parse_output(full_response).final_answer # <<>>

\* C4: in variant 7 every run of run_shell_command follows a safe verdict of
\* is_command_safe on the same command, given after the model call that asked
\* for it.
C4_ToolCallsGated ==
    \A i \in DOMAIN calls : calls[i].op = "run_shell_command" =>
        \E j \in 1..(i - 1) :
            /\ calls[j].op = "is_command_safe"
            /\ calls[j].arg = calls[i].arg
            /\ calls[j].ret = "safe"
            /\ \A k \in j..i : calls[k].op # "chat"

\* C5: every assistant turn of the history whose text parses to an action is
\* directly followed by an Observation turn, whenever the main model is called
\* (the history is only ever changed between two such calls).
C5_NoOrphanedAction ==
    \A i \in DOMAIN history :
        (/\ history[i].role = "assistant"
         /\ ~parse_output(history[i].content).action.is_none)
            => (i < Len(history) /\ IsObservation(history[i + 1]))

C5_Witness ==
    /\ pc = "for"
    /\ step < max_steps
    /\ \E i \in DOMAIN history :
        /\ history[i].role = "assistant"
        /\ ~parse_output(history[i].content).action.is_none
        /\ parse_output(history[i].content).action.tool \notin TOOLS

Plain(text) ==
    ~Contains(text, ActionMarker) /\ ~Contains(text, FinalAnswerMarker)

\* every response so far had neither marker: each finished iteration added
\* one assistant turn with such a text, and so does the one under way
PlainRun ==
    /\ calls = <<>> \/ Plain(full_response)
    /\ Len(history) = 2 + step
    /\ \A i \in 3..Len(history) :
          history[i].role = "assistant" /\ Plain(history[i].content)

\* C6: while the backend returns only text with neither marker, the loop makes
\* no safety check, execution or verification, keeps going until it has made
\* exactly max_steps model calls, and then returns the exhaustion message.
C6_BudgetTermination ==
    PlainRun =>
        /\ Count("get_llm_response") <= max_steps
        /\ Count("is_command_safe") = 0
        /\ Count("run_shell_command") = 0
        /\ Count("verify") = 0
        /\ pc # "done" => ENABLED Next
        /\ pc = "done" =>
              (Count("get_llm_response") = max_steps /\ result = MaxStepsMessage)

C6_Witness ==
    /\ pc = "done"
    /\ PlainRun
    /\ max_steps > 1
    /\ Count("get_llm_response") = max_steps

OnlyFinalMarker(text) ==
    Contains(text, FinalAnswerMarker) /\ ~Contains(text, ActionMarker)

\* C7: once a response with the Final Answer marker and no Action marker is
\* parsed, every step leaves the history as it is, makes no main model call,
\* safety check or execution, and leads to the return of the answer.
C7_FinalAnswerEndsActing ==
    [][(pc \in {"parsed", "verified"} /\ OnlyFinalMarker(full_response)) =>
          /\ history' = history
          /\ pc' \in {"verified", "done"}
          /\ \A i \in (Len(calls) + 1)..Len(calls') : calls'[i].op = "verify"]_vars

\* C8: when the verification response lacks |Better Answer:|, run_agent returns
\* the final answer the loop accepted, unchanged.
C8_VerifierPassThrough ==
    (/\ pc = "done"
     /\ Count("verify") = 1
     /\ ~Contains(verification_response, BetterAnswerMarker))
        => (result = final_answer
            /\ final_answer = parse_output(full_response).final_answer
            /\ final_answer # <<>>)

C8_Witness ==
    /\ pc = "done"
    /\ Count("verify") = 1
    /\ Contains(verification_response, <<"Better Answer", ":">>)
    /\ ~Contains(verification_response, BetterAnswerMarker)
    /\ result = final_answer

\* C9: when a command runs into the timeout, the loop receives the timeout
\* observation and no process started for the command is still running.
C9_TimeoutContainment ==
    (/\ pc = "for"
     /\ calls # <<>>
     /\ LastCall.op = "run_shell_command"
     /\ LastCall.ret = "timeout")
        => (/\ history[Len(history)] = ObservationTurn(TimeoutMessage)
            /\ procs = {})

\* C10: an action naming a tool outside TOOLS leads to no safety check and no
\* execution; the assistant turn and an Observation naming the unknown tool
\* are appended and the loop is back at its top for the next iteration.
C10_UnknownTool ==
    LET p == parse_output(full_response)
    IN  (/\ calls # <<>>
         /\ ~HasBothMarkers(full_response)
         /\ p.final_answer = <<>>
         /\ ~p.action.is_none
         /\ p.action.tool \notin TOOLS)
            => /\ pc \in {"stream", "check", "parsed", "for", "done"}
               /\ IterationCalls = <<>>
               /\ pc \in {"for", "done"} =>
                     /\ Len(history) >= 4
                     /\ history[Len(history) - 1] = Turn("assistant", full_response)
                     /\ history[Len(history)] =
                            Turn("user", <<"Observation", ":", " ", "Error", ":", " ",
                                           "Unknown tool", ":", " ">> \o p.action.tool)
               /\ pc = "done" => (result = MaxStepsMessage /\ step >= max_steps)
               /\ (pc = "for" /\ step < max_steps) => ENABLED GetLLMResponse

C10_Witness ==
    /\ pc = "for"
    /\ step < max_steps
    /\ calls # <<>>
    /\ ~HasBothMarkers(full_response)
    /\ parse_output(full_response).final_answer = <<>>
    /\ ~parse_output(full_response).action.is_none
    /\ parse_output(full_response).action.tool \notin TOOLS

\* C11: when the gate returns unsafe, the step that follows puts at the end of
\* the history an Observation that says the command was blocked and carries
\* both the argument of the blocked action and the response the gate gave.
C11_BlockFeedback ==
    [][(pc = "gated" /\ ~is_safe) =>
          LET last == history'[Len(history')]
          IN  /\ pc' = "for"
              /\ IsObservation(last)
              /\ Contains(last.content,
                    <<"was blocked by the safety guard as potentially harmful.">>)
              /\ Contains(last.content, action.arg)
              /\ Contains(last.content, Strip(safeguard_response))]_vars

\* C12: the value of a run that ended with an accepted final answer, kept or
\* replaced by the verifier, is never the value returned on exhaustion.
C12_ExhaustionDistinct ==
    (pc = "done" /\ Count("verify") = 1) => result # MaxStepsMessage

\* C13: whatever the command did (exit 0, another exit code, timeout, could
\* not be launched), run_shell_command came back with a text, the loop put it
\* at the end of the history as an Observation after the assistant turn, and
\* the run goes on: the next model call is enabled while steps remain and
\* nothing but exhaustion ends the run.
C13_ExecutionFaultsRecovered ==
    (calls # <<>> /\ LastCall.op = "run_shell_command") =>
        LET last == history[Len(history)]
        IN  /\ pc \in {"for", "done"}
            /\ Len(history) >= 4
            /\ history[Len(history) - 1] = Turn("assistant", full_response)
            /\ IsObservation(last)
            /\ \E o \in Outcomes :
                  /\ o.kind = LastCall.ret
                  /\ last = ObservationTurn(run_shell_command(o))
            /\ LastCall.ret = "timeout" => last = ObservationTurn(TimeoutMessage)
            /\ LastCall.ret = "fault" =>
                  StartsWith(last.content,
                             <<"Observation", ":", " ", "Exception", ":", " ">>)
            /\ pc = "done" => (result = MaxStepsMessage /\ step >= max_steps)
            /\ (pc = "for" /\ step < max_steps) => ENABLED GetLLMResponse

C13_Witness ==
    /\ pc = "for"
    /\ step < max_steps
    /\ calls # <<>>
    /\ LastCall.op = "run_shell_command"
    /\ LastCall.ret = "fault"

\* the number of registered-tool calls among the first k of tcs
Rank(tcs, k) == Cardinality({j \in 1..k : tcs[j].name \in TOOLS})

\* the turns after the assistant message at index i answer its tool calls one
\* by one and in order
Answered(i) ==
    LET m == execution_history[i]
        n == Len(m.tool_calls)
    IN  /\ i + n <= Len(execution_history)
        /\ \A k \in 1..n :
              LET t == execution_history[i + k]
                  c == m.tool_calls[k]
              IN  /\ t.role = "tool"
                  /\ c.name \notin TOOLS =>
                        t.content = <<"Error", ":", " ", "Unknown tool", ":", " ">>
                                        \o c.name
                  /\ c.name \in TOOLS =>
                        \E o \in Outcomes : t.content = run_shell_command(o)
        /\ i + n < Len(execution_history) =>
              execution_history[i + n + 1].role = "assistant"

\* the tool turns of the latest message against the call log of the iteration:
\* the j-th command run is the j-th registered call, and its outcome is what
\* the turn of that call reports
AnsweredFromLog(i) ==
    LET m == execution_history[i]
        n == Len(m.tool_calls)
    IN  /\ Len(IterationCalls) = Rank(m.tool_calls, n)
        /\ \A k \in 1..n : m.tool_calls[k].name \in TOOLS =>
              LET e == IterationCalls[Rank(m.tool_calls, k)]
              IN  /\ e.op = "run_shell_command"
                  /\ e.arg = m.tool_calls[k].command
                  /\ \E o \in Outcomes :
                        /\ o.kind = e.ret
                        /\ execution_history[i + k].content = run_shell_command(o)

\* C14: in variant 7, whenever the loop is between two model calls or has
\* returned, every assistant message of the loop with n >= 1 tool calls is
\* directly followed by exactly n tool turns, the k-th being the result of the
\* k-th call (the unknown-tool error for an unregistered name), and a message
\* with no tool calls and a non-empty text is the last turn, the run has
\* returned and the text is the returned value.
C14_StructuredToolCalls ==
    pc \in {"for", "next", "done"} =>
        \A i \in (Len(SeededHistory(plan)) + 1)..Len(execution_history) :
            LET m == execution_history[i]
            IN  m.role = "assistant" =>
                  /\ m.tool_calls # <<>> => Answered(i)
                  /\ (m.tool_calls # <<>>
                        /\ \A j \in (i + 1)..Len(execution_history) :
                              execution_history[j].role # "assistant")
                        => AnsweredFromLog(i)
                  /\ (m.tool_calls = <<>> /\ m.content # <<>>) =>
                        /\ i = Len(execution_history)
                        /\ pc = "done"
                        /\ result = m.content

C14_Witness ==
    /\ pc = "for"
    /\ step <= max_steps
    /\ \E i \in (Len(SeededHistory(plan)) + 1)..Len(execution_history) :
          /\ execution_history[i].role = "assistant"
          /\ Len(execution_history[i].tool_calls) = 2
          /\ execution_history[i].tool_calls[1].name \in TOOLS
          /\ execution_history[i].tool_calls[2].name \notin TOOLS

\* the run of variant 7 returned the text of a message without tool calls
C14_WitnessFinal ==
    /\ pc = "done"
    /\ execution_history[Len(execution_history)].role = "assistant"
    /\ execution_history[Len(execution_history)].content = <<"done">>
    /\ result = <<"done">>

\* C15: the final answer parse_output returns for a text with the Final Answer
\* marker is everything after the first such marker up to the end of the text,
\* trimmed, whatever marker-like token that text holds.
C15_FinalAnswerCapture ==
    (pc = "parsed" /\ Contains(full_response, FinalAnswerMarker)) =>
        final_answer =
            Strip(SubSeq(full_response,
                         Find(full_response, FinalAnswerMarker)
                             + Len(FinalAnswerMarker),
                         Len(full_response)))

IsPrefix(s, t) == Len(s) <= Len(t) /\ SubSeq(t, 1, Len(s)) = s

\* C16: the history of variant 6 always starts with the system turn and the
\* turn of the query, and every step leaves it as it is or adds turns at its
\* end: the history before a step is a prefix of the history after it.
C16_AppendOnly ==
    /\ [](/\ Len(history) >= 2
          /\ history[1] = Turn("system", SYSTEM_PROMPT)
          /\ history[2] = Turn("user", Query))
    /\ [][IsPrefix(history, history')]_vars

\* a step extended the history and a later malformed turn left it alone
C16_Witness ==
    /\ pc = "for"
    /\ Len(history) > 2
    /\ step = 2
    /\ HasBothMarkers(full_response)

MalformedRun ==
    /\ calls # <<>>
    /\ HasBothMarkers(full_response)
    /\ Len(calls) = Count("get_llm_response")
    /\ Len(history) = 2

\* C18: the step taken on a response with both markers leaves the history and
\* the call log as they are and adds one to step, the counter max_steps
\* bounds; and while the backend returns only such responses the history
\* stays the system and the query turn, each model call uses up one step,
\* and the run ends in exhaustion after exactly max_steps model calls.
C18_MalformedRetry ==
    /\ [][(pc = "check" /\ HasBothMarkers(full_response)) =>
              /\ history' = history
              /\ calls' = calls
              /\ step' = step + 1
              /\ max_steps' = max_steps
              /\ pc' = "for"]_vars
    /\ [](MalformedRun =>
              /\ history = <<Turn("system", SYSTEM_PROMPT), Turn("user", Query)>>
              /\ pc \in {"stream", "check", "for", "done"}
              /\ Count("get_llm_response") =
                     step + (IF pc \in {"stream", "check"} THEN 1 ELSE 0)
              /\ Count("get_llm_response") <= max_steps
              /\ pc # "done" => ENABLED Next
              /\ pc = "done" => (/\ Count("get_llm_response") = max_steps
                                 /\ result = MaxStepsMessage))

C18_Witness ==
    /\ pc = "done"
    /\ MalformedRun
    /\ max_steps > 1
    /\ Count("get_llm_response") = max_steps

\* C19: the verification query is made at most once, only when the response
\* of the iteration parsed to a non-empty final answer, which is its subject;
\* it is the last call of the run, so no main model call, safety check or
\* execution follows it; and a run that ended by exhaustion made none.
C19_VerifierOneShot ==
    /\ Count("verify") <= 1
    /\ Count("verify") = 1 =>
          /\ LastCall.op = "verify"
          /\ pc \in {"verified", "done"}
          /\ ~HasBothMarkers(full_response)
          /\ final_answer = parse_output(full_response).final_answer
          /\ final_answer # <<>>
          /\ LastCall.arg = final_answer
          /\ step < max_steps
    /\ (pc = "done" /\ step >= max_steps) =>
          (Count("verify") = 0 /\ result = MaxStepsMessage)

C19_Witness ==
    /\ pc = "done"
    /\ Count("verify") = 1
    /\ Count("run_shell_command") = 1
    /\ Len(history) = 4

\* a run that ended by exhaustion after its last step executed a command
C19_WitnessExhausted ==
    /\ pc = "done"
    /\ step >= max_steps
    /\ max_steps > 0
    /\ LastCall.op = "run_shell_command"

\* C20: when the verification response holds |Better Answer:|, run_agent
\* returns the text from the end of the first such marker to the end of the
\* response, trimmed, whatever the accepted final answer was and also when
\* that text is empty.
C20_VerifierSupersede ==
    (/\ pc = "done"
     /\ Count("verify") = 1
     /\ Contains(verification_response, BetterAnswerMarker))
        => result =
              Strip(SubSeq(verification_response,
                           Find(verification_response, BetterAnswerMarker)
                               + Len(BetterAnswerMarker),
                           Len(verification_response)))

C20_Witness ==
    /\ pc = "done"
    /\ Count("verify") = 1
    /\ verification_response = BetterAnswerMarker
    /\ final_answer # <<>>
    /\ result = <<>>

\* the better answer starts after the first of two markers
C20_WitnessFirst ==
    /\ pc = "done"
    /\ result = <<"z", " ">> \o BetterAnswerMarker \o <<" ", "w">>

\* a conversation of one user turn that is no turn of the main history
Isolated(messages) ==
    /\ Len(messages) = 1
    /\ messages[1].role = "user"
    /\ \A i \in DOMAIN history : history[i] # messages[1]

\* the safety checks of the current iteration
GateCalls ==
    {i \in DOMAIN IterationCalls : IterationCalls[i].op = "is_command_safe"}

\* C21: the step that makes the safety query or the verification query leaves
\* the main history as it is; each of the two queries is sent as one user turn
\* that is no turn of the main history; and an iteration whose response
\* proposed a run_shell_command action makes exactly one safety query, on the
\* argument of that action.
C21_SecondaryQueriesIsolated ==
    /\ [][(Len(calls') > Len(calls)
              /\ calls'[Len(calls')].op \in {"is_command_safe", "verify"})
                => history' = history]_vars
    /\ [](/\ pc = "gated" => Isolated(safeguard_history)
          /\ pc = "verified" => Isolated(verification_history)
          /\ LET p == parse_output(full_response)
             IN  (/\ pc \in {"gated", "for", "done"}
                  /\ calls # <<>>
                  /\ ~HasBothMarkers(full_response)
                  /\ p.final_answer = <<>>
                  /\ ~p.action.is_none
                  /\ p.action.tool = ShellTool)
                    => /\ Cardinality(GateCalls) = 1
                       /\ \A i \in GateCalls : IterationCalls[i].arg = p.action.arg)

\* a verification query made after an iteration with a safety query
C21_Witness ==
    /\ pc = "verified"
    /\ Len(verification_history) = 1
    /\ Count("is_command_safe") = 1
    /\ Len(history) = 4

\* the response has not both markers and parses to no action and no answer
Thinking(text) ==
    /\ ~HasBothMarkers(text)
    /\ parse_output(text).final_answer = <<>>
    /\ parse_output(text).action.is_none

\* C22: for a response without both markers that parses to no action and no
\* final answer, parsing changes neither the history nor the step, and the
\* step after it appends exactly one assistant turn with the response as it
\* came, adds one to step and goes back to the top of the loop; neither step
\* makes a safety check, an execution or a verification.
C22_ThinkingStep ==
    [][(pc \in {"check", "parsed"} /\ Thinking(full_response)) =>
          /\ calls' = calls
          /\ pc = "check" =>
                (history' = history /\ step' = step /\ pc' = "parsed")
          /\ pc = "parsed" =>
                /\ history' = Append(history, Turn("assistant", full_response))
                /\ step' = step + 1
                /\ pc' = "for"]_vars

\* a thinking step on a text with blanks at its end has been taken
C22_Witness ==
    /\ pc = "for"
    /\ step = 1
    /\ Len(calls) = 1
    /\ Thinking(full_response)
    /\ full_response # Strip(full_response)
    /\ history[Len(history)] = Turn("assistant", full_response)

\* the trimmed content of the Action section of a text
ActionSection(text) ==
    GroupOrEmpty(SearchSection(text, "Action", {"Thought", "Final Answer"}))

\* C23: for a parsed response with an Action section, the tool name is the
\* trimmed text before the first ':' of the section and the argument the
\* trimmed text after it, later ':' included; a section without ':' gives no
\* action, and the iteration then ends with the assistant turn as last turn,
\* no Observation and no call.
C23_ActionSplit ==
    LET a == ActionSection(full_response)
    IN  (/\ pc \in {"parsed", "gated", "for", "done"}
         /\ calls # <<>>
         /\ ~HasBothMarkers(full_response)
         /\ Contains(full_response, ActionMarker))
            => /\ Contains(a, <<":">>) =>
                     /\ ~action.is_none
                     /\ \E c \in 1..Len(a) :
                           /\ a[c] = ":"
                           /\ \A j \in 1..(c - 1) : a[j] # ":"
                           /\ action.tool = Strip(SubSeq(a, 1, c - 1))
                           /\ action.arg = Strip(SubSeq(a, c + 1, Len(a)))
               /\ ~Contains(a, <<":">>) =>
                     /\ action.is_none
                     /\ pc \in {"parsed", "for", "done"}
                     /\ pc \in {"for", "done"} =>
                           /\ IterationCalls = <<>>
                           /\ history[Len(history)] =
                                  Turn("assistant", full_response)

\* an argument that holds a ':' of its own
C23_Witness ==
    /\ pc = "parsed"
    /\ action.tool = <<"foo">>
    /\ action.arg = <<"ls", ":", "x">>

\* an Action section without ':' ended as a step without Observation
C23_WitnessNone ==
    /\ pc = "for"
    /\ full_response = BareActionText
    /\ history[Len(history)] = Turn("assistant", BareActionText)

\* text holds a and, somewhere after it, b
HoldsInOrder(text, a, b) ==
    \E i \in 1..(Len(text) + 1) : \E j \in 1..(Len(text) + 1) :
        /\ MatchAt(text, i, a)
        /\ MatchAt(text, j, b)
        /\ i + Len(a) <= j

\* C24: in variant 7 the call log never holds more than one planning call;
\* once planning is over it holds exactly one, as its first entry, made on the
\* planning system prompt and the query alone, with no command run and no
\* tool call pending because of it; the acting history starts with the six
\* seeded turns, the sixth a user turn that holds the query and after it the
\* plan.
C24_PlanningOneShot ==
    /\ Count("plan") <= 1
    /\ pc = "plan" => (calls = <<>> /\ execution_history = <<>>)
    /\ pc # "plan" =>
          /\ Count("plan") = 1
          /\ calls[1] = Call("plan",
                             <<Turn("system", SYSTEM_PROMPT_PLANNING),
                               Turn("user", Query)>>, "")
          /\ Len(calls) = 1 => (tool_calls = <<>> /\ procs = {})
          /\ Len(execution_history) >= 6
          /\ execution_history[1] = Turn("system", SYSTEM_PROMPT_ACTING)
          /\ \A i \in 1..6 : execution_history[i] = SeededHistory(plan)[i]
          /\ execution_history[6].role = "user"
          /\ HoldsInOrder(execution_history[6].content, Query, plan)

\* two acting calls were made on a plan that is not empty
C24_Witness ==
    /\ Count("chat") = 2
    /\ plan # <<>>
    /\ Count("plan") = 1

\* Python: "".join(fragments)
RECURSIVE Flatten(_)
Flatten(fragments) ==
    IF fragments = <<>> THEN <<>>
    ELSE Head(fragments) \o Flatten(Tail(fragments))

\* C25: while the stream of the main call is read, the text read so far
\* followed by the fragments still to come stays the same text, one of the
\* responses of the backend, and nothing is parsed, decided or appended; the
\* loop looks at the response only when no fragment is left, so that the
\* malformed check and parse_output see the whole text however it was cut.
C25_StreamAccumulation ==
    /\ [][pc = "stream" =>
              /\ full_response' \o Flatten(stream')
                     = full_response \o Flatten(stream)
              /\ pc' \in {"stream", "check"}
              /\ UNCHANGED <<history, step, action, final_answer, calls,
                             result>>]_vars
    /\ [](/\ pc = "stream" =>
                (stream # <<>> /\ full_response \o Flatten(stream) \in Responses)
          /\ pc # "stream" => stream = <<>>
          /\ pc \in {"check", "parsed", "gated", "verified"} =>
                full_response \in Responses)

\* the stream was cut inside the marker of the response
C25_Witness ==
    /\ pc = "stream"
    /\ full_response = <<"|", "Action">>
    /\ Len(stream) = 3
    /\ HasBothMarkers(full_response \o Flatten(stream))

\* C26: with a backend that can fail, the step on which a model query fails
\* ends the run and leaves the history and the processes as they are; no step
\* inside an iteration changes the history before the iteration is over; and
\* once the run has ended that way the failure is the last entry of the call
\* log and the only failure, no value was returned and no further step, be it
\* a retry, a model call or an execution, is possible.
C26_BackendFaultTerminal ==
    /\ [][(Len(calls') > Len(calls) /\ calls'[Len(calls')].op = "fault") =>
              /\ pc' = "raised"
              /\ history' = history
              /\ UNCHANGED <<step, procs, result>>]_vars
    /\ [][(pc \in {"stream", "check", "parsed", "gated"} /\ pc' # "for") =>
              history' = history]_vars
    /\ [](pc = "raised" =>
              /\ LastCall.op = "fault"
              /\ Count("fault") = 1
              /\ result = <<>>
              /\ ~ENABLED NextF)

\* the stream of the main call broke after a part of the response was read
C26_Witness ==
    /\ pc = "raised"
    /\ LastCall.arg = <<"get_llm_response">>
    /\ full_response = <<"|", "Action">>
    /\ Len(history) = 4

\* the safety query failed
C26_WitnessGate ==
    /\ pc = "raised"
    /\ LastCall.arg = <<"is_command_safe">>

\* the verification query failed
C26_WitnessVerify ==
    /\ pc = "raised"
    /\ LastCall.arg = <<"verify">>

\* what the executor is to return for an outcome of the environment
ExpectedObservation(o) ==
    IF o.kind = "timeout" THEN <<"action execution failed with timeout">>
    ELSE IF o.kind = "fault" THEN <<"Exception", ":", " ">> \o o.stderr
    ELSE IF o.returncode = 0 THEN Strip(o.stdout)
    ELSE <<"Error", ":", " ">> \o Strip(o.stderr)

\* C27: run_shell_command maps every outcome of the environment to the
\* trimmed output, to "Error: " and the trimmed error text, to the timeout
\* message or to "Exception: " and the description of the fault; the
\* Observation a finished execution left in the history is that text for an
\* outcome of the logged kind, and the iteration ran the command once.
C27_ExecutorMapping ==
    /\ \A o \in Outcomes : run_shell_command(o) = ExpectedObservation(o)
    /\ (calls # <<>> /\ LastCall.op = "run_shell_command") =>
          /\ \E o \in Outcomes :
                /\ o.kind = LastCall.ret
                /\ history[Len(history)] =
                       Turn("user", <<"Observation", ":", " ">>
                                        \o ExpectedObservation(o))
          /\ Cardinality({i \in DOMAIN IterationCalls :
                              IterationCalls[i].op = "run_shell_command"}) = 1

\* a command that ended with a non-zero status left its trimmed error text
C27_Witness ==
    /\ pc = "for"
    /\ calls # <<>>
    /\ LastCall.op = "run_shell_command"
    /\ history[Len(history)].content =
           <<"Observation", ":", " ", "Error", ":", " ", "err">>

\* the model queries made so far
Queries ==
    Count("get_llm_response") + Count("is_command_safe") + Count("verify")

\* C28: in every state the main model calls number at most max_steps; a
\* safety query is found only in an iteration whose response parsed to a
\* run_shell_command action and a verification query only in the iteration
\* whose response parsed to the accepted final answer, at most one of the two
\* per iteration; the queries number at most 2 * max_steps; and when every
\* query and command returns the run ends.
C28_QueryBound ==
    /\ [](/\ Count("get_llm_response") <= max_steps
          /\ Len(IterationCalls) # 0 =>
                /\ Cardinality({i \in DOMAIN IterationCalls :
                       IterationCalls[i].op \in {"is_command_safe", "verify"}}) = 1
                /\ ~HasBothMarkers(full_response)
          /\ (\E i \in DOMAIN IterationCalls :
                 IterationCalls[i].op = "is_command_safe") =>
                /\ parse_output(full_response).final_answer = <<>>
                /\ parse_output(full_response).action.tool = ShellTool
          /\ (\E i \in DOMAIN IterationCalls : IterationCalls[i].op = "verify") =>
                /\ parse_output(full_response).final_answer # <<>>
                /\ final_answer = parse_output(full_response).final_answer
          /\ Count("is_command_safe") + Count("verify")
                <= Count("get_llm_response")
          /\ Queries <= 2 * max_steps)
    /\ <>(pc = "done")

\* a run that used all of its steps on gated commands: 2 * max_steps queries
C28_Witness ==
    /\ pc = "done"
    /\ max_steps = MaxSteps
    /\ Queries = 2 * max_steps

\* the assistant messages the acting calls have appended to execution_history
ActingResponses ==
    SelectSeq(SubSeq(execution_history, Len(SeededHistory(plan)) + 1,
                     Len(execution_history)),
              LAMBDA m : m.role = "assistant")

AllCarryToolCalls ==
    \A i \in DOMAIN ActingResponses : ActingResponses[i].tool_calls # <<>>

C29_WitnessOne ==
    /\ pc = "done"
    /\ max_steps = 1
    /\ Count("plan") = 1
    /\ result = MaxStepsMessage

\* the Observation at index i of history answers the action of the turn before
AnswersAction(i) ==
    LET a == parse_output(history[i - 1].content).action
        obs == history[i]
    IN  /\ history[i - 1].role = "assistant"
        /\ parse_output(history[i - 1].content).final_answer = <<>>
        /\ ~a.is_none
        /\ \/ /\ a.tool \in TOOLS
              /\ \/ obs = ObservationTurn(BlockedObservation(a.arg))
                 \/ \E o \in Outcomes : obs = ObservationTurn(run_shell_command(o))
           \/ /\ a.tool \notin TOOLS
              /\ obs = ObservationTurn(UnknownToolObservation(a.tool))

\* C30: in every state of variant 6 the history opens with the system turn
\* and the query; every Observation turn comes right after an assistant turn
\* whose text parses to the action the Observation reports on; no two
\* Observation turns are adjacent; and after step completed iterations the
\* history holds at most 2 + 2 * step turns.
C30_LogShape ==
    /\ Len(history) >= 2
    /\ history[1] = Turn("system", SYSTEM_PROMPT)
    /\ history[2] = Turn("user", Query)
    /\ \A i \in DOMAIN history :
          IsObservation(history[i]) => (i > 3 /\ AnswersAction(i))
    /\ \A i \in 1..(Len(history) - 1) :
          ~(IsObservation(history[i]) /\ IsObservation(history[i + 1]))
    /\ \A i \in 3..Len(history) :
          history[i].role = "user" => IsObservation(history[i])
    /\ Len(history) <= 2 + 2 * step

\* every iteration of the largest budget left an assistant turn and its
\* Observation
C30_Witness ==
    /\ pc = "for"
    /\ max_steps = MaxSteps
    /\ step = max_steps
    /\ Len(history) = 2 + 2 * step
    /\ IsObservation(history[4])
    /\ IsObservation(history[Len(history)])

====
